---- MODULE Spec2Model ----
(***************************************************************************)
(* A model of github.com/grokify/oscompat, package localnet: named local   *)
(* IPC endpoints over Unix domain sockets (localnet_unix.go) or loopback   *)
(* TCP with a port file (localnet_windows.go), behind the common API of    *)
(* localnet.go (Listen, Dial, SocketPath, Cleanup, Listener.Close/Name).   *)
(* The stateless packages tsync (tolerant timestamp comparison) and fs      *)
(* (path validation) are modelled as operators, with specifications that    *)
(* draw the arguments in their initial states.                              *)
(***************************************************************************)
EXTENDS Integers, Sequences, FiniteSets, TLC

VARIABLES
    platform,   \* build target: "unix" (!windows) or "windows"; fixed at build time
    env,        \* value of XDG_RUNTIME_DIR (unix) / LOCALAPPDATA (windows); "" = unset
    dirs,       \* the artifact directories that exist
    fs,         \* the artifact store: path -> file
    listeners,  \* every *Listener returned by Listen, in order of creation
    conns,      \* every connection returned by Dial, in order of creation
    ret         \* the call made by the last step and what it returned

vars == <<platform, env, dirs, fs, listeners, conns, ret>>

-----------------------------------------------------------------------------
(* Bounds of the model *)

MaxListeners == 2   \* successful Listen calls
MaxConns == 1       \* successful Dial calls
MaxPeers == 2       \* connections where connections are compared with each other
MaxPayload == 2     \* bytes written on one connection

Names == {"", "a"}
MoreNames == {"", "a", "b"}   \* where two endpoints of different names matter
EnvVals == {"", "rt"}
Bytes == {0, 1}
Ports == {9, 10}     \* the ports the OS hands out for 127.0.0.1:0

\* what a port file may hold when something else than listen wrote it
PortTexts ==
    {<<"9">>, <<"1", "0">>, <<" ", "9", "\n">>, <<"1", "0", "\r", "\n">>,
     <<>>, <<"x">>, <<"h", "t", "t", "p">>, <<"9", " ", "9">>}

-----------------------------------------------------------------------------
(* Errors: <<>> is nil, <<code>> an error value, <<prefix, code>> a wrapped one *)

Nil == <<>>
ErrInvalidName == <<"oscompat/localnet: name cannot be empty">>
ENOENT == <<"ENOENT">>
EACCES == <<"EACCES">>
EPERM == <<"EPERM">>
ECONNREFUSED == <<"ECONNREFUSED">>
EADDRINUSE == <<"EADDRINUSE">>
ENOSPC == <<"ENOSPC">>
EINVALPORT == <<"invalid port">>
ErrNetClosing == <<"use of closed network connection">>

Wrap(prefix, err) == <<prefix>> \o err

IsNotExist(err) == err = ENOENT

-----------------------------------------------------------------------------
(* Endpoint naming *)

\* filepath.Join(dir, file): dir is a sequence of path segments
Join(dir, file) == [dir |-> dir, file |-> file]

\* socketDir without the look at XDG_RUNTIME_DIR
socketDir_tmp(e) == <<"tmp">>

socketDir(e) == IF e # "" THEN <<e>> ELSE <<"tmp">>

socketPath_unix(e, name) == Join(socketDir(e), <<name, ".sock">>)

\* portFileDir that keeps to the directory below the home directory
portFileDir_home(e) == <<"home", "AppData", "Local", "oscompat", "localnet">>

portFileDir(e) ==
    IF e # "" THEN <<e, "oscompat", "localnet">>
    ELSE <<"home", "AppData", "Local", "oscompat", "localnet">>

\* portFilePath with one port file for every name
portFilePath_shared(e, name) == Join(portFileDir(e), <<"a", ".port">>)

portFilePath(e, name) == Join(portFileDir(e), <<name, ".port">>)

socketPath_windows(e, name) == portFilePath(e, name)

socketPath(pf, e, name) ==
    IF pf = "unix" THEN socketPath_unix(e, name) ELSE socketPath_windows(e, name)

Paths == {socketPath(pf, e, n) : pf \in {"unix", "windows"}, e \in EnvVals, n \in MoreNames}

-----------------------------------------------------------------------------
(* Files *)

ModeSocket == 448   \* 0700
ModePortFile == 384 \* 0600
ModeBound == 493    \* 0755, a freshly bound socket before Chmod

NoFile == [kind |-> "none", lid |-> 0, mode |-> 0, data |-> <<>>]
SocketFile(lid, mode) == [kind |-> "sock", lid |-> lid, mode |-> mode, data |-> <<>>]
PortFile(data) == [kind |-> "port", lid |-> 0, mode |-> ModePortFile, data |-> data]

Digit(n) == CASE n = 0 -> "0" [] n = 1 -> "1" [] n = 2 -> "2" [] n = 3 -> "3"
              [] n = 4 -> "4" [] n = 5 -> "5" [] n = 6 -> "6" [] n = 7 -> "7"
              [] n = 8 -> "8" [] n = 9 -> "9"

RECURSIVE Itoa(_)
\* strconv.Itoa for n >= 0: the decimal text, one character per element
Itoa(n) == IF n < 10 THEN <<Digit(n)>> ELSE Itoa(n \div 10) \o <<Digit(n % 10)>>

IsSpace(ch) == ch \in {" ", "\n", "\t", "\r"}

RECURSIVE TrimLeft(_)
TrimLeft(s) == IF s # <<>> /\ IsSpace(Head(s)) THEN TrimLeft(Tail(s)) ELSE s

RECURSIVE TrimRight(_)
TrimRight(s) ==
    IF s # <<>> /\ IsSpace(s[Len(s)]) THEN TrimRight(SubSeq(s, 1, Len(s) - 1)) ELSE s

\* a trim of the leading white space only
TrimSpace_left(s) == TrimLeft(s)

\* strings.TrimSpace
TrimSpace(s) == TrimRight(TrimLeft(s))

DigitVal(ch) == CHOOSE n \in 0 .. 9 : Digit(n) = ch
IsDigit(ch) == \E n \in 0 .. 9 : Digit(n) = ch

RECURSIVE DecimalValue(_)
DecimalValue(s) ==
    IF s = <<>> THEN 0
    ELSE DecimalValue(SubSeq(s, 1, Len(s) - 1)) * 10 + DigitVal(s[Len(s)])

\* the port of a service name in the table of package net, -1 for an unknown name
ServicePort(s) == IF s = <<"h", "t", "t", "p">> THEN 80 ELSE -1

\* the port net.Dial("tcp", "127.0.0.1:" + port) resolves, or -1 when it resolves
\* none: the empty text is port 0, digits with an optional sign are a number,
\* which has to lie in the port range, and any other text is looked up as a
\* service name
ResolvePort(s) ==
    LET signed == s # <<>> /\ Head(s) \in {"+", "-"}
        body == IF signed THEN Tail(s) ELSE s
        n == DecimalValue(body)
    IN  IF \A i \in 1 .. Len(body) : IsDigit(body[i])
        THEN (IF n > 65535 \/ (n > 0 /\ signed /\ Head(s) = "-") THEN -1 ELSE n)
        ELSE ServicePort(s)

-----------------------------------------------------------------------------
(* OS primitives on the artifact store *)

\* os.Remove(path)
RemoveErr(f, ro, path) ==
    IF f[path].kind = "none" THEN ENOENT
    ELSE IF ro THEN EACCES
    ELSE Nil

RemoveFs(f, ro, path) ==
    IF RemoveErr(f, ro, path) = Nil THEN [f EXCEPT ![path] = NoFile] ELSE f

-----------------------------------------------------------------------------
(* Transport *)

\* closes and cleanups count the Close calls and the cleanup invocations of a
\* Listener: 0, 1, or 2 for "more than once"
NewListener(name, path, port) ==
    [name |-> name, path |-> path, port |-> port, state |-> "open",
     closes |-> 0, cleanups |-> 0]

IsOpen(ls, lid) == lid \in 1 .. Len(ls) /\ ls[lid].state = "open"

\* the loopback ports held by open TCP listeners
BoundPorts(ls) == {ls[i].port : i \in {j \in 1 .. Len(ls) : ls[j].state = "open"}}

\* the open TCP listener bound to port p, 0 when there is none
ListenerOnPort(ls, p) ==
    IF \E i \in 1 .. Len(ls) : ls[i].state = "open" /\ ls[i].port = p
    THEN CHOOSE i \in 1 .. Len(ls) : ls[i].state = "open" /\ ls[i].port = p
    ELSE 0

-----------------------------------------------------------------------------
(* localnet_unix.go *)

\* a Chmod that leaves the mode of the socket as the bind set it
chmodSocket_keep(file) == file

\* os.Chmod(path, 0700) on the socket that was just bound
chmodSocket(file) == [file EXCEPT !.mode = ModeSocket]

\* listen with the stale-socket removal placed after the bind
listen_unix_removeAfter(e, f, ro, ds, ls, name, chmodOk) ==
    LET path == socketPath_unix(e, name)
    IN  IF ro \/ f[path].kind # "none"
        THEN [err |-> Wrap("failed to listen", IF ro THEN EACCES ELSE EADDRINUSE),
              f |-> f, dirs |-> ds, ls |-> ls]
        ELSE [err |-> Nil, f |-> f, dirs |-> ds,
              ls |-> Append(ls, NewListener(name, path, 0))]

\* listen that binds without removing what is at the path
listen_unix_keepStale(e, f, ro, ds, ls, name, chmodOk) ==
    LET path == socketPath_unix(e, name)
        lid == Len(ls) + 1
        f2 == [f EXCEPT ![path] = SocketFile(lid, ModeBound)]
    IN  IF f[path].kind # "none"
        THEN [err |-> Wrap("failed to listen", EADDRINUSE), f |-> f, dirs |-> ds, ls |-> ls]
        ELSE IF ro \/ socketDir(e) \notin ds
        THEN [err |-> Wrap("failed to listen", IF ro THEN EACCES ELSE ENOENT),
              f |-> f, dirs |-> ds, ls |-> ls]
        ELSE IF ~chmodOk
        THEN [err |-> Wrap("failed to set socket permissions", EPERM),
              f |-> f, dirs |-> ds, ls |-> ls]
        ELSE [err |-> Nil,
              f |-> [f2 EXCEPT ![path] = chmodSocket(f2[path])],
              dirs |-> ds,
              ls |-> Append(ls, NewListener(name, path, 0))]

\* listen(name); chmodOk: whether os.Chmod on the bound socket succeeds
listen_unix(e, f, ro, ds, ls, name, chmodOk) ==
    LET path == socketPath_unix(e, name)
        rerr == RemoveErr(f, ro, path)
        f1 == RemoveFs(f, ro, path)
        lid == Len(ls) + 1
        f2 == [f1 EXCEPT ![path] = SocketFile(lid, ModeBound)]
    IN  IF rerr # Nil /\ ~IsNotExist(rerr)
        THEN [err |-> Wrap("failed to remove existing socket", rerr),
              f |-> f, dirs |-> ds, ls |-> ls]
        ELSE IF ro \/ socketDir(e) \notin ds
        THEN [err |-> Wrap("failed to listen", IF ro THEN EACCES ELSE ENOENT),
              f |-> f1, dirs |-> ds, ls |-> ls]
        ELSE IF ~chmodOk
        THEN \* l.Close() unlinks the socket, os.Remove(path) finds it gone
             [err |-> Wrap("failed to set socket permissions", EPERM),
              f |-> RemoveFs(RemoveFs(f2, ro, path), ro, path), dirs |-> ds, ls |-> ls]
        ELSE [err |-> Nil,
              f |-> [f2 EXCEPT ![path] = chmodSocket(f2[path])],
              dirs |-> ds,
              ls |-> Append(ls, NewListener(name, path, 0))]

\* dial that tries the connect a second time when the first try failed
dial_unix_retry(e, f, ls, name) ==
    LET path == socketPath_unix(e, name)
    IN  IF f[path].kind = "sock" /\ IsOpen(ls, f[path].lid)
        THEN [err |-> Nil, lid |-> f[path].lid, io |-> <<"net.Dial">>]
        ELSE [err |-> Wrap("failed to connect",
                           IF f[path].kind = "none" THEN ENOENT ELSE ECONNREFUSED),
              lid |-> 0, io |-> <<"net.Dial", "net.Dial">>]

\* dial(name): lid is the listener the connection is queued at, io the calls
\* that read the artifact or connect, in the order dial made them
dial_unix(e, f, ls, name) ==
    LET path == socketPath_unix(e, name)
    IN  IF f[path].kind = "none"
        THEN [err |-> Wrap("failed to connect", ENOENT), lid |-> 0, io |-> <<"net.Dial">>]
        ELSE IF f[path].kind = "sock" /\ IsOpen(ls, f[path].lid)
        THEN [err |-> Nil, lid |-> f[path].lid, io |-> <<"net.Dial">>]
        ELSE [err |-> Wrap("failed to connect", ECONNREFUSED), lid |-> 0,
              io |-> <<"net.Dial">>]

\* cleanup that reports "does not exist" as an error
cleanup_unix_strict(e, f, ro, name) ==
    LET path == socketPath_unix(e, name)
    IN  [err |-> RemoveErr(f, ro, path), f |-> RemoveFs(f, ro, path)]

\* cleanup(name)
cleanup_unix(e, f, ro, name) ==
    LET path == socketPath_unix(e, name)
        err == RemoveErr(f, ro, path)
    IN  [err |-> IF IsNotExist(err) THEN Nil ELSE err, f |-> RemoveFs(f, ro, path)]

-----------------------------------------------------------------------------
(* localnet_windows.go *)

\* the port of the address asked for, "127.0.0.1:0", in place of the bound port
portFileContent_requested(port) == Itoa(0)

\* the bytes listen writes into the port file
portFileContent(port) == Itoa(port)

\* listen that leaves a port file alone when there is one
listen_windows_keepFile(e, f, ro, ds, ls, name, port, writeOk) ==
    LET portFile == portFilePath(e, name)
        dir == portFileDir(e)
        ds1 == ds \cup {dir}
    IN  IF dir \notin ds /\ ro
        THEN [err |-> Wrap("failed to create port file directory", EACCES),
              f |-> f, dirs |-> ds, ls |-> ls]
        ELSE IF port \in BoundPorts(ls)
        THEN [err |-> Wrap("failed to listen", EADDRINUSE),
              f |-> f, dirs |-> ds1, ls |-> ls]
        ELSE IF ro \/ ~writeOk
        THEN [err |-> Wrap("failed to write port file", IF ro THEN EACCES ELSE ENOSPC),
              f |-> f, dirs |-> ds1, ls |-> ls]
        ELSE [err |-> Nil,
              f |-> IF f[portFile].kind = "none"
                    THEN [f EXCEPT ![portFile] = PortFile(portFileContent(port))]
                    ELSE f,
              dirs |-> ds1,
              ls |-> Append(ls, NewListener(name, portFile, port))]

\* listen(name); port: the port the OS assigns to 127.0.0.1:0; writeOk: whether
\* os.WriteFile, once it has created or truncated the port file, writes the bytes
listen_windows(e, f, ro, ds, ls, name, port, writeOk) ==
    LET portFile == portFilePath(e, name)
        dir == portFileDir(e)
        ds1 == ds \cup {dir}
        f1 == RemoveFs(f, ro, portFile)
    IN  IF dir \notin ds /\ ro
        THEN [err |-> Wrap("failed to create port file directory", EACCES),
              f |-> f, dirs |-> ds, ls |-> ls]
        ELSE IF port \in BoundPorts(ls)
        THEN [err |-> Wrap("failed to listen", EADDRINUSE),
              f |-> f1, dirs |-> ds1, ls |-> ls]
        ELSE IF ro
        THEN \* os.WriteFile cannot open the file; l.Close() releases the port
             [err |-> Wrap("failed to write port file", EACCES),
              f |-> f1, dirs |-> ds1, ls |-> ls]
        ELSE IF ~writeOk
        THEN \* os.WriteFile fails after it opened the file, which stays, empty
             [err |-> Wrap("failed to write port file", ENOSPC),
              f |-> [f1 EXCEPT ![portFile] = PortFile(<<>>)], dirs |-> ds1, ls |-> ls]
        ELSE [err |-> Nil,
              f |-> [f1 EXCEPT ![portFile] = PortFile(portFileContent(port))],
              dirs |-> ds1,
              ls |-> Append(ls, NewListener(name, portFile, port))]

\* dial(name)
dial_windows(e, f, ls, name) ==
    LET portFile == portFilePath(e, name)
        port == TrimSpace(f[portFile].data)
        p == ResolvePort(port)
    IN  IF f[portFile].kind = "none"
        THEN [err |-> Wrap("failed to read port file", ENOENT), lid |-> 0,
              io |-> <<"os.ReadFile">>]
        ELSE IF p = -1
        THEN [err |-> Wrap("failed to connect", EINVALPORT), lid |-> 0,
              io |-> <<"os.ReadFile", "net.Dial">>]
        ELSE IF p # 0 /\ ListenerOnPort(ls, p) # 0
        THEN [err |-> Nil, lid |-> ListenerOnPort(ls, p),
              io |-> <<"os.ReadFile", "net.Dial">>]
        ELSE [err |-> Wrap("failed to connect", ECONNREFUSED), lid |-> 0,
              io |-> <<"os.ReadFile", "net.Dial">>]

\* cleanup that reports success whatever the removal returned
cleanup_windows_swallow(e, f, ro, name) ==
    LET portFile == portFilePath(e, name)
    IN  [err |-> Nil, f |-> RemoveFs(f, ro, portFile)]

\* cleanup(name)
cleanup_windows(e, f, ro, name) ==
    LET portFile == portFilePath(e, name)
        err == RemoveErr(f, ro, portFile)
    IN  [err |-> IF IsNotExist(err) THEN Nil ELSE err, f |-> RemoveFs(f, ro, portFile)]

-----------------------------------------------------------------------------
(* localnet.go *)

NoPath == Join(<<>>, <<>>)   \* the empty string as a path

\* stepOk: whether the step on the artifact that follows the bind goes through,
\* os.Chmod on the socket or the write into the port file
listen(pf, e, f, ro, ds, ls, name, stepOk, port) ==
    IF pf = "unix" THEN listen_unix(e, f, ro, ds, ls, name, stepOk)
    ELSE listen_windows(e, f, ro, ds, ls, name, port, stepOk)

dial(pf, e, f, ls, name) ==
    IF pf = "unix" THEN dial_unix(e, f, ls, name) ELSE dial_windows(e, f, ls, name)

cleanup(pf, e, f, ro, name) ==
    IF pf = "unix" THEN cleanup_unix(e, f, ro, name) ELSE cleanup_windows(e, f, ro, name)

\* Listen without the empty-name check
Listen_unchecked(pf, e, f, ro, ds, ls, name, stepOk, port) ==
    listen(pf, e, f, ro, ds, ls, name, stepOk, port)

\* Listen(name)
Listen(pf, e, f, ro, ds, ls, name, stepOk, port) ==
    IF name = ""
    THEN [err |-> ErrInvalidName, f |-> f, dirs |-> ds, ls |-> ls]
    ELSE listen(pf, e, f, ro, ds, ls, name, stepOk, port)

\* Dial(name)
Dial(pf, e, f, ls, name) ==
    IF name = "" THEN [err |-> ErrInvalidName, lid |-> 0, io |-> <<>>]
    ELSE dial(pf, e, f, ls, name)

\* SocketPath without the empty-name check
SocketPath_unchecked(pf, e, name) == socketPath(pf, e, name)

\* SocketPath(name)
SocketPath(pf, e, name) == IF name = "" THEN NoPath ELSE socketPath(pf, e, name)

\* Cleanup(name)
Cleanup(pf, e, f, ro, name) ==
    IF name = "" THEN [err |-> ErrInvalidName, f |-> f] ELSE cleanup(pf, e, f, ro, name)

\* l.Listener.Close(): the error of closing the transport listener l
transportCloseErr(l) == IF l.state = "open" THEN Nil ELSE ErrNetClosing

\* l.Listener.Close(): a Unix listener unlinks its socket path on its first close
\* and ignores the outcome
transportCloseFs(pf, f, ro, l) ==
    IF pf = "unix" /\ l.state = "open" THEN RemoveFs(f, ro, l.path) ELSE f

\* a cleanup closure that reports "does not exist" as an error
cleanupClosure_strict(f, ro, path) ==
    [err |-> RemoveErr(f, ro, path), f |-> RemoveFs(f, ro, path)]

\* a cleanup closure that removes nothing
cleanupClosure_noop(f, ro, path) == [err |-> Nil, f |-> f]

\* the cleanup closure that listen stores in the Listener
cleanupClosure(f, ro, path) ==
    LET err == RemoveErr(f, ro, path)
    IN  [err |-> IF IsNotExist(err) THEN Nil ELSE err, f |-> RemoveFs(f, ro, path)]

\* the cleanup error taking precedence over the transport-close error
closeErr_cleanupFirst(terr, cerr) == IF cerr = Nil THEN terr ELSE cerr

\* the error Listener.Close returns
closeErr(terr, cerr) == IF terr = Nil THEN cerr ELSE terr

\* one more call, counted as 0, 1, more than once
Once(n) == IF n = 0 THEN 1 ELSE 2

\* Close whose cleanup step removes the path that the name of the Listener
\* resolves to when no directory is set in the environment
Close_resolving(pf, f, ro, l) ==
    LET terr == transportCloseErr(l)
        f1 == transportCloseFs(pf, f, ro, l)
        c == cleanupClosure(f1, ro, socketPath(pf, "", l.name))
    IN  [terr |-> terr, cerr |-> c.err, err |-> closeErr(terr, c.err), f |-> c.f,
         l |-> [l EXCEPT !.state = "closed", !.closes = Once(@), !.cleanups = Once(@)]]

\* Listener.Close() on listener record l
Close(pf, f, ro, l) ==
    LET terr == transportCloseErr(l)
        f1 == transportCloseFs(pf, f, ro, l)
        c == cleanupClosure(f1, ro, l.path)
    IN  [terr |-> terr, cerr |-> c.err, err |-> closeErr(terr, c.err), f |-> c.f,
         l |-> [l EXCEPT !.state = "closed", !.closes = Once(@), !.cleanups = Once(@)]]

\* Name that reports nothing once the Listener is closed
Name_whileOpen(l) == IF l.state = "open" THEN l.name ELSE ""

\* Listener.Name()
Name(l) == l.name

-----------------------------------------------------------------------------
(* Connections: the byte stream from the dialed end to the accepted end *)

NewConn(name, lid) ==
    [name |-> name, lid |-> lid, st |-> "pending", sent |-> <<>>, buf |-> <<>>,
     rcvd |-> <<>>, cclosed |-> FALSE, sclosed |-> FALSE, eof |-> FALSE]

\* every connection of listener lid is reset when it goes away, accepted or not
ResetBacklog_all(cs, lid) ==
    [i \in 1 .. Len(cs) |->
        IF cs[i].lid = lid THEN [cs[i] EXCEPT !.st = "reset"] ELSE cs[i]]

\* connections still waiting in the backlog of listener lid are reset when it goes away
ResetBacklog(cs, lid) ==
    [i \in 1 .. Len(cs) |->
        IF cs[i].lid = lid /\ cs[i].st = "pending" THEN [cs[i] EXCEPT !.st = "reset"]
        ELSE cs[i]]

\* the accepted ends held by the process of listener lid are closed when it exits
CloseAccepted(cs, lid) ==
    [i \in 1 .. Len(cs) |->
        IF cs[i].lid = lid /\ cs[i].st = "accepted" THEN [cs[i] EXCEPT !.sclosed = TRUE]
        ELSE cs[i]]

Backlog(cs, lid) == {i \in 1 .. Len(cs) : cs[i].lid = lid /\ cs[i].st = "pending"}

Min(S) == CHOOSE x \in S : \A y \in S : x <= y

\* what a call returned: err its error, lid the Listener it returned, closed or
\* connected to, terr and cerr the two errors inside Close, path the path returned
Ret(op, name, err, lid, terr, cerr, path) ==
    [op |-> op, name |-> name, err |-> err, lid |-> lid,
     terr |-> terr, cerr |-> cerr, path |-> path]

\* the last step was no call of the package
Idle == Ret("none", "", Nil, 0, Nil, Nil, NoPath)

-----------------------------------------------------------------------------
(* The state machine.  ro, an input of every call that touches the artifact *)
(* store, tells whether the store denies creating, writing and removing     *)
(* entries while the call runs (permissions are changed between calls).     *)

Init ==
    /\ platform \in {"unix", "windows"}
    /\ env = ""
    /\ dirs = IF platform = "unix" THEN {socketDir(e) : e \in EnvVals} ELSE {}
    /\ fs = [p \in Paths |-> NoFile]
    /\ listeners = <<>>
    /\ conns = <<>>
    /\ ret = Idle

FreePorts == Ports \ BoundPorts(listeners)

\* a call of Listen(name)
ListenCall(name) ==
    /\ Len(listeners) < MaxListeners
    /\ \E ro \in BOOLEAN, stepOk \in BOOLEAN,
          port \in (IF FreePorts = {} THEN Ports ELSE FreePorts) :
        LET r == Listen(platform, env, fs, ro, dirs, listeners, name, stepOk, port)
        IN  /\ fs' = r.f
            /\ dirs' = r.dirs
            /\ listeners' = r.ls
            /\ ret' = Ret("Listen", name, r.err, IF r.err = Nil THEN Len(r.ls) ELSE 0,
                          Nil, Nil, NoPath)
    /\ UNCHANGED <<platform, env, conns>>

\* a call of Dial(name), with at most max connections followed
DialCallWithin(name, max) ==
    LET r == Dial(platform, env, fs, listeners, name)
    IN  /\ r.err = Nil => Len(conns) < max
        /\ conns' = IF r.err = Nil THEN Append(conns, NewConn(name, r.lid)) ELSE conns
        /\ ret' = Ret("Dial", name, r.err, r.lid, Nil, Nil, NoPath)
        /\ UNCHANGED <<platform, env, dirs, fs, listeners>>

\* a call of Dial(name)
DialCall(name) == DialCallWithin(name, MaxConns)

\* a call of Dial(name) by a caller that looks at the result only: a connection,
\* if one is returned, is closed at once and its stream is not followed
DialProbe(name) ==
    LET r == Dial(platform, env, fs, listeners, name)
    IN  /\ ret' = Ret("Dial", name, r.err, r.lid, Nil, Nil, NoPath)
        /\ UNCHANGED <<platform, env, dirs, fs, listeners, conns>>

\* a call of SocketPath(name)
SocketPathCall(name) ==
    /\ ret' = Ret("SocketPath", name, Nil, 0, Nil, Nil, SocketPath(platform, env, name))
    /\ UNCHANGED <<platform, env, dirs, fs, listeners, conns>>

\* a call of Cleanup(name)
CleanupCall(name) ==
    /\ \E ro \in BOOLEAN :
        LET r == Cleanup(platform, env, fs, ro, name)
        IN  /\ fs' = r.f
            /\ ret' = Ret("Cleanup", name, r.err, 0, Nil, Nil, NoPath)
    /\ UNCHANGED <<platform, env, dirs, listeners, conns>>

\* a call of Close on the Listener lid by the process that holds it
CloseCall(lid) ==
    /\ lid \in 1 .. Len(listeners)
    /\ listeners[lid].state # "dead"
    /\ \E ro \in BOOLEAN :
        LET r == Close(platform, fs, ro, listeners[lid])
        IN  /\ fs' = r.f
            /\ listeners' = [listeners EXCEPT ![lid] = r.l]
            /\ conns' = ResetBacklog(conns, lid)
            /\ ret' = Ret("Close", listeners[lid].name, r.err, lid, r.terr, r.cerr, NoPath)
    /\ UNCHANGED <<platform, env, dirs>>

\* a call of Name on the Listener lid
NameCall(lid) ==
    /\ lid \in 1 .. Len(listeners)
    /\ listeners[lid].state # "dead"
    /\ ret' = Ret("Name", Name(listeners[lid]), Nil, lid, Nil, Nil, NoPath)
    /\ UNCHANGED <<platform, env, dirs, fs, listeners, conns>>

\* a call of Accept on the Listener lid: blocks while the backlog is empty
AcceptCall(lid) ==
    /\ lid \in 1 .. Len(listeners)
    /\ listeners[lid].state # "dead"
    /\ IF listeners[lid].state = "closed"
       THEN /\ ret' = Ret("Accept", listeners[lid].name, ErrNetClosing, lid, Nil, Nil, NoPath)
            /\ UNCHANGED conns
       ELSE /\ Backlog(conns, lid) # {}
            /\ LET c == Min(Backlog(conns, lid))
               IN  /\ conns' = [conns EXCEPT ![c].st = "accepted"]
                   /\ ret' = Ret("Accept", listeners[lid].name, Nil, lid, Nil, Nil, NoPath)
    /\ UNCHANGED <<platform, env, dirs, fs, listeners>>

\* the dialed end of connection c writes byte b
ConnWrite(c, b) ==
    /\ c \in 1 .. Len(conns)
    /\ conns[c].st # "reset" /\ ~conns[c].cclosed /\ ~conns[c].sclosed
    /\ Len(conns[c].sent) < MaxPayload
    /\ conns' = [conns EXCEPT ![c].sent = Append(@, b), ![c].buf = Append(@, b)]
    /\ ret' = Idle
    /\ UNCHANGED <<platform, env, dirs, fs, listeners>>

\* the accepted end of connection c reads: one byte, or end-of-stream once the
\* dialed end is closed and the stream is drained; blocks otherwise
ConnRead(c) ==
    /\ c \in 1 .. Len(conns)
    /\ conns[c].st = "accepted" /\ ~conns[c].sclosed /\ ~conns[c].eof
    /\ IF conns[c].buf # <<>>
       THEN conns' = [conns EXCEPT ![c].rcvd = Append(@, Head(conns[c].buf)),
                                   ![c].buf = Tail(@)]
       ELSE /\ conns[c].cclosed
            /\ conns' = [conns EXCEPT ![c].eof = TRUE]
    /\ ret' = Idle
    /\ UNCHANGED <<platform, env, dirs, fs, listeners>>

\* the dialed end of connection c is closed
ConnCloseDialed(c) ==
    /\ c \in 1 .. Len(conns)
    /\ ~conns[c].cclosed
    /\ conns' = [conns EXCEPT ![c].cclosed = TRUE]
    /\ ret' = Idle
    /\ UNCHANGED <<platform, env, dirs, fs, listeners>>

\* the accepted end of connection c is closed
ConnCloseAccepted(c) ==
    /\ c \in 1 .. Len(conns)
    /\ conns[c].st = "accepted" /\ ~conns[c].sclosed
    /\ conns' = [conns EXCEPT ![c].sclosed = TRUE]
    /\ ret' = Idle
    /\ UNCHANGED <<platform, env, dirs, fs, listeners>>

\* the process holding Listener lid exits without Close or Cleanup
Crash(lid) ==
    /\ lid \in 1 .. Len(listeners)
    /\ listeners[lid].state = "open"
    /\ listeners' = [listeners EXCEPT ![lid].state = "dead"]
    /\ conns' = CloseAccepted(ResetBacklog(conns, lid), lid)
    /\ ret' = Idle
    /\ UNCHANGED <<platform, env, dirs, fs>>

\* the port file of name is written by something else than listen: another
\* writer of the same format, or an editor
WritePortFile(name, data) ==
    /\ platform = "windows" /\ name # ""
    /\ portFileDir(env) \in dirs
    /\ fs[portFilePath(env, name)] # PortFile(data)
    /\ fs' = [fs EXCEPT ![portFilePath(env, name)] = PortFile(data)]
    /\ ret' = Idle
    /\ UNCHANGED <<platform, env, dirs, listeners, conns>>

\* the environment variable that names the artifact directory is changed
Setenv(v) ==
    /\ v # env
    /\ env' = v
    /\ ret' = Idle
    /\ UNCHANGED <<platform, dirs, fs, listeners, conns>>

\* accepting, and the traffic on established connections
StreamSteps ==
    \/ \E lid \in 1 .. MaxListeners : AcceptCall(lid)
    \/ \E c \in 1 .. MaxConns, b \in Bytes : ConnWrite(c, b)
    \/ \E c \in 1 .. MaxConns : ConnRead(c)
    \/ \E c \in 1 .. MaxConns : ConnCloseDialed(c)
    \/ \E c \in 1 .. MaxConns : ConnCloseAccepted(c)

\* Artifact lifecycle: every step that reads or changes the environment, the
\* artifact store or the listeners; connections are not followed
Next ==
    \/ \E name \in Names : ListenCall(name)
    \/ \E name \in Names : DialProbe(name)
    \/ \E name \in Names : CleanupCall(name)
    \/ \E lid \in 1 .. MaxListeners : CloseCall(lid)
    \/ \E lid \in 1 .. MaxListeners : Crash(lid)
    \/ \E v \in EnvVals : Setenv(v)

Spec == Init /\ [][Next]_vars

\* Naming: the calls that report a path or a name, among the steps that change
\* what they report
NextNames ==
    \/ \E name \in Names : ListenCall(name)
    \/ \E name \in Names : SocketPathCall(name)
    \/ \E lid \in 1 .. MaxListeners : CloseCall(lid)
    \/ \E lid \in 1 .. MaxListeners : NameCall(lid)
    \/ \E v \in EnvVals : Setenv(v)

SpecNames == Init /\ [][NextNames]_vars

\* The life of Listeners of different names: created, dialed, accepting, closed,
\* and asked for their names in between
NextListener ==
    \/ \E name \in MoreNames : ListenCall(name)
    \/ \E name \in MoreNames : DialCall(name)
    \/ \E lid \in 1 .. MaxListeners : AcceptCall(lid)
    \/ \E lid \in 1 .. MaxListeners : CloseCall(lid)
    \/ \E lid \in 1 .. MaxListeners : NameCall(lid)

SpecListener == Init /\ [][NextListener]_vars

\* Artifacts of different names: the calls that take a name, for two names, and
\* Close; connections are not followed
NextArtifacts ==
    \/ \E name \in MoreNames : ListenCall(name)
    \/ \E name \in MoreNames : DialProbe(name)
    \/ \E name \in MoreNames : CleanupCall(name)
    \/ \E lid \in 1 .. MaxListeners : CloseCall(lid)

SpecArtifacts == Init /\ [][NextArtifacts]_vars

\* Port files: the TCP transport with port files that listen or something else
\* wrote
InitPortFile == Init /\ platform = "windows"

NextPortFile ==
    \/ \E name \in Names : ListenCall(name)
    \/ \E name \in Names : DialProbe(name)
    \/ \E name \in Names, data \in PortTexts : WritePortFile(name, data)
    \/ \E lid \in 1 .. MaxListeners : CloseCall(lid)

SpecPortFile == InitPortFile /\ [][NextPortFile]_vars

\* Connections: listening, dialing, accepting and the traffic, under an
\* environment that stays as it is
NextStream ==
    \/ \E name \in Names : ListenCall(name)
    \/ \E name \in Names : DialCall(name)
    \/ \E name \in Names : CleanupCall(name)
    \/ \E lid \in 1 .. MaxListeners : CloseCall(lid)
    \/ StreamSteps

SpecStream == Init /\ [][NextStream]_vars

\* Connections side by side: several connections of one name, each end closed
\* on its own, while the Listener is closed and the artifact cleaned up; bytes
\* are sent on the first connection
NextPeers ==
    \/ ListenCall("a")
    \/ DialCallWithin("a", MaxPeers)
    \/ CleanupCall("a")
    \/ \E lid \in 1 .. MaxListeners : CloseCall(lid)
    \/ \E lid \in 1 .. MaxListeners : AcceptCall(lid)
    \/ ConnWrite(1, 0)
    \/ ConnRead(1)
    \/ \E c \in 1 .. MaxPeers : ConnCloseDialed(c)
    \/ \E c \in 1 .. MaxPeers : ConnCloseAccepted(c)

SpecPeers == Init /\ [][NextPeers]_vars

-----------------------------------------------------------------------------
(* Package tsync (tsync.go): comparing timestamps with a tolerance.  A      *)
(* time.Time is an instant, counted in ticks from the zero time; a          *)
(* time.Duration is a signed integer of DurBits bits, in place of the 64    *)
(* bits of the program.                                                     *)

DurBits == 4     \* width of a Duration
MaxTime == 20    \* the latest instant

MaxDuration == 2 ^ (DurBits - 1) - 1
MinDuration == -(2 ^ (DurBits - 1))
Durations == MinDuration .. MaxDuration
Times == 0 .. MaxTime

\* t.Sub(u): the difference, or the largest or smallest Duration when the
\* difference is out of range
Sub(t, u) ==
    IF t - u > MaxDuration THEN MaxDuration
    ELSE IF t - u < MinDuration THEN MinDuration
    ELSE t - u

\* -d on a Duration: two's complement, the smallest Duration is its own negation
Neg(d) == IF d = MinDuration THEN MinDuration ELSE -d

\* t.Before(u)
TimeBefore(t, u) == t < u

EqualWithTolerance(t1, t2, tolerance) ==
    LET diff == Sub(t1, t2)
        diff1 == IF diff < 0 THEN Neg(diff) ELSE diff
    IN  diff1 <= tolerance

BeforeWithTolerance(t1, t2, tolerance) == Sub(t2, t1) > tolerance

AfterWithTolerance(t1, t2, tolerance) == Sub(t1, t2) > tolerance

CompareWithTolerance(t1, t2, tolerance) ==
    LET diff == Sub(t1, t2)
        diff1 == IF diff < 0 THEN Neg(diff) ELSE diff
    IN  IF diff1 <= tolerance THEN 0
        ELSE IF TimeBefore(t1, t2) THEN -1
        ELSE 1

\* what a call of package tsync returned
TsyncRet(op, t1, t2, tolerance, out) ==
    [op |-> op, t1 |-> t1, t2 |-> t2, tolerance |-> tolerance, out |-> out]

\* the calls are made on the timestamps and the tolerance that Init drew
EqualWithToleranceCall ==
    /\ ret' = TsyncRet("EqualWithTolerance", ret.t1, ret.t2, ret.tolerance,
                       EqualWithTolerance(ret.t1, ret.t2, ret.tolerance))
    /\ UNCHANGED <<platform, env, dirs, fs, listeners, conns>>

BeforeWithToleranceCall ==
    /\ ret' = TsyncRet("BeforeWithTolerance", ret.t1, ret.t2, ret.tolerance,
                       BeforeWithTolerance(ret.t1, ret.t2, ret.tolerance))
    /\ UNCHANGED <<platform, env, dirs, fs, listeners, conns>>

AfterWithToleranceCall ==
    /\ ret' = TsyncRet("AfterWithTolerance", ret.t1, ret.t2, ret.tolerance,
                       AfterWithTolerance(ret.t1, ret.t2, ret.tolerance))
    /\ UNCHANGED <<platform, env, dirs, fs, listeners, conns>>

CompareWithToleranceCall ==
    /\ ret' = TsyncRet("CompareWithTolerance", ret.t1, ret.t2, ret.tolerance,
                       CompareWithTolerance(ret.t1, ret.t2, ret.tolerance))
    /\ UNCHANGED <<platform, env, dirs, fs, listeners, conns>>

\* package tsync keeps no state: any two timestamps and any tolerance, and no
\* endpoint of package localnet
InitTsync ==
    /\ platform = "unix" /\ env = "" /\ dirs = {}
    /\ fs = [p \in Paths |-> NoFile]
    /\ listeners = <<>> /\ conns = <<>>
    /\ ret \in {TsyncRet("none", t1, t2, tolerance, FALSE) :
                    t1 \in Times, t2 \in Times, tolerance \in Durations}

NextTsync ==
    \/ EqualWithToleranceCall
    \/ BeforeWithToleranceCall
    \/ AfterWithToleranceCall
    \/ CompareWithToleranceCall

SpecTsync == InitTsync /\ [][NextTsync]_vars

-----------------------------------------------------------------------------
(* Package fs (fs.go): path validation.  A path is a string, one character  *)
(* per element.                                                             *)

MaxPathLen == 6   \* characters in a path

Chars == {"a", ".", "/", "\\", ":"}
PathStrings == UNION {[1 .. k -> Chars] : k \in 0 .. MaxPathLen}

ErrPathTraversal == <<"oscompat/fs: path traversal detected">>
ErrEmptyPath == <<"oscompat/fs: empty path">>
ErrAbsolutePath == <<"oscompat/fs: absolute path not allowed">>

\* strings.ReplaceAll(s, old, new) for one-character old and new
ReplaceAll(s, old, new) == [i \in 1 .. Len(s) |-> IF s[i] = old THEN new ELSE s[i]]

\* strings.HasPrefix
HasPrefix(s, prefix) ==
    Len(s) >= Len(prefix) /\ SubSeq(s, 1, Len(prefix)) = prefix

\* strings.Contains
Contains(s, sub) ==
    \E i \in 1 .. Len(s) - Len(sub) + 1 : SubSeq(s, i, i + Len(sub) - 1) = sub

RECURSIVE Elements(_)
\* the elements of s between its slashes, empty ones included
Elements(s) ==
    IF \A i \in 1 .. Len(s) : s[i] # "/" THEN <<s>>
    ELSE LET k == CHOOSE i \in 1 .. Len(s) : s[i] = "/" /\ \A j \in 1 .. i - 1 : s[j] # "/"
         IN  <<SubSeq(s, 1, k - 1)>> \o Elements(SubSeq(s, k + 1, Len(s)))

RECURSIVE CleanElements(_, _, _)
\* path.Clean, element by element: out is what is kept so far
CleanElements(elems, rooted, out) ==
    IF elems = <<>> THEN out
    ELSE LET e == Head(elems)
             rest == Tail(elems)
         IN  IF e = <<>> \/ e = <<".">> THEN CleanElements(rest, rooted, out)
             ELSE IF e = <<".", ".">>
             THEN IF out # <<>> /\ out[Len(out)] # <<".", ".">>
                  THEN CleanElements(rest, rooted, SubSeq(out, 1, Len(out) - 1))
                  ELSE IF rooted THEN CleanElements(rest, rooted, out)
                  ELSE CleanElements(rest, rooted, Append(out, e))
             ELSE CleanElements(rest, rooted, Append(out, e))

RECURSIVE JoinElements(_)
JoinElements(elems) ==
    IF elems = <<>> THEN <<>>
    ELSE IF Len(elems) = 1 THEN elems[1]
    ELSE elems[1] \o <<"/">> \o JoinElements(Tail(elems))

\* path.Clean
Clean(s) ==
    LET rooted == s # <<>> /\ s[1] = "/"
        out == JoinElements(CleanElements(Elements(s), rooted, <<>>))
    IN  IF rooted THEN <<"/">> \o out
        ELSE IF out = <<>> THEN <<".">>
        ELSE out

IsSlash(ch) == ch = "/" \/ ch = "\\"

\* filepath.IsAbs of the build target: a leading slash; or a drive with a
\* separator behind it, or a path that starts with two separators
IsAbs(pf, p) ==
    IF pf = "unix" THEN p # <<>> /\ p[1] = "/"
    ELSE \/ Len(p) >= 3 /\ p[1] = "a" /\ p[2] = ":" /\ IsSlash(p[3])
         \/ Len(p) >= 2 /\ IsSlash(p[1]) /\ IsSlash(p[2])

ValidatePath(pf, p) ==
    IF p = <<>> THEN ErrEmptyPath
    ELSE IF IsAbs(pf, p) \/ (Len(p) >= 2 /\ p[2] = ":") THEN ErrAbsolutePath
    ELSE LET normalized == ReplaceAll(p, "\\", "/")
             cleaned == Clean(normalized)
         IN  IF cleaned = <<".", ".">> \/ HasPrefix(cleaned, <<".", ".", "/">>)
             THEN ErrPathTraversal
             ELSE IF Contains(cleaned, <<"/", ".", ".", "/">>) THEN ErrPathTraversal
             ELSE Nil

\* what a call of package fs returned
FsRet(op, p, err) == [op |-> op, p |-> p, err |-> err]

\* the call is made on the path that Init drew
ValidatePathCall ==
    /\ ret' = FsRet("ValidatePath", ret.p, ValidatePath(platform, ret.p))
    /\ UNCHANGED <<platform, env, dirs, fs, listeners, conns>>

\* the separator of the build target
Separator(pf) == IF pf = "unix" THEN "/" ELSE "\\"

\* filepath.FromSlash
FromSlash(pf, p) == ReplaceAll(p, "/", Separator(pf))

\* OSPath(p)
OSPath(pf, p) == IF p = <<>> THEN <<>> ELSE FromSlash(pf, p)

\* filepath.Clean: path.Clean on a Unix target; on a Windows target the volume
\* is kept, both separators separate, and the result has backslashes
CleanOS(pf, p) ==
    IF pf = "unix" THEN Clean(p)
    ELSE LET vol == IF Len(p) >= 2 /\ p[2] = ":" THEN SubSeq(p, 1, 2) ELSE <<>>
             rest == SubSeq(p, Len(vol) + 1, Len(p))
         IN  vol \o ReplaceAll(Clean(ReplaceAll(rest, "\\", "/")), "/", "\\")

\* filepath.Join(a, b) for non-empty a and b
JoinOS(pf, a, b) == CleanOS(pf, a \o <<Separator(pf)>> \o b)

\* the working directory of the process
Cwd(pf) == IF pf = "unix" THEN <<"/">> ELSE <<"a", ":", "\\">>

\* filepath.Abs
Abs(pf, p) == IF IsAbs(pf, p) THEN CleanOS(pf, p) ELSE JoinOS(pf, Cwd(pf), p)

\* the base directories SafeJoin is called with
Bases(pf) ==
    IF pf = "unix" THEN {<<"/", "a">>, <<"/", "a", "/", "a">>}
    ELSE {<<"a", ":", "\\", "a">>, <<"a", ":", "\\", "a", "\\", "a">>}

\* SafeJoin(base, rel)
SafeJoin(pf, base, rel) ==
    LET osRel == OSPath(pf, rel)
        joined == JoinOS(pf, base, osRel)
        absBase == Abs(pf, base)
        absJoined == Abs(pf, joined)
    IN  IF ValidatePath(pf, rel) # Nil THEN [out |-> <<>>, err |-> ValidatePath(pf, rel)]
        ELSE IF ~HasPrefix(absJoined, absBase) THEN [out |-> <<>>, err |-> ErrPathTraversal]
        ELSE [out |-> joined, err |-> Nil]

\* what a call of SafeJoin returned
SafeJoinRet(base, p, r) ==
    [op |-> "SafeJoin", base |-> base, p |-> p, err |-> r.err, out |-> r.out]

\* the call is made with the path that Init drew as rel
SafeJoinCall ==
    \E base \in Bases(platform) :
        /\ ret' = SafeJoinRet(base, ret.p, SafeJoin(platform, base, ret.p))
        /\ UNCHANGED <<platform, env, dirs, fs, listeners, conns>>

\* package fs keeps no state: any path, on either build target, and no endpoint
\* of package localnet
InitFs ==
    /\ platform \in {"unix", "windows"} /\ env = "" /\ dirs = {}
    /\ fs = [p \in Paths |-> NoFile]
    /\ listeners = <<>> /\ conns = <<>>
    /\ ret \in {FsRet("none", p, Nil) : p \in PathStrings}

NextFs ==
    \/ ValidatePathCall
    \/ SafeJoinCall

SpecFs == InitFs /\ [][NextFs]_vars

-----------------------------------------------------------------------------
(* Vocabulary of the properties *)

Lids == 1 .. Len(listeners)

\* the artifact at the path of Listener lid is the one that Listener published
Publishes(f, ls, lid) ==
    IF ls[lid].port = 0
    THEN f[ls[lid].path] = SocketFile(lid, ModeSocket)
    ELSE f[ls[lid].path] = PortFile(Itoa(ls[lid].port))

\* the step is a call of op, and ret' is what it returned
Called(op) == ret'.op = op

-----------------------------------------------------------------------------
(* C1 *)

\* C1: a Listener on which Close was called at least once has had its cleanup
\* action invoked exactly once in total, however often Close was called.
C1_CleanupExactlyOnce ==
    \A lid \in Lids : listeners[lid].closes >= 1 => listeners[lid].cleanups = 1

-----------------------------------------------------------------------------
(* C2 *)

\* C2: while a Listener L is open and its artifact is the one it published, no
\* Close call on a different Listener removes or alters that artifact.
C2_ExclusiveOwnership ==
    [][Called("Close") =>
        \A lid \in Lids :
            (lid # ret'.lid /\ IsOpen(listeners, lid) /\ Publishes(fs, listeners, lid))
                => fs'[listeners[lid].path] = fs[listeners[lid].path]]_vars

-----------------------------------------------------------------------------
(* C3 *)

\* C3: Listen(""), Dial("") and Cleanup("") return exactly ErrInvalidName and
\* leave the artifact store, the directories, the listeners and the connections
\* as they were.
C3_EmptyNameRejected ==
    [][((Called("Listen") \/ Called("Dial") \/ Called("Cleanup")) /\ ret'.name = "")
        => (ret'.err = ErrInvalidName /\ UNCHANGED <<fs, dirs, listeners, conns>>)]_vars

\* Dial("") was rejected while an open Listener and its artifact were there to be touched
C3_Witness ==
    /\ ret.op = "Dial" /\ ret.name = "" /\ ret.err = ErrInvalidName
    /\ \E lid \in Lids : IsOpen(listeners, lid) /\ Publishes(fs, listeners, lid)

-----------------------------------------------------------------------------
(* C4, under SpecStream *)

\* nothing is lost, duplicated, reordered or added between the dialed end and the
\* accepted end; end-of-stream is seen only after the dialed end was closed and
\* every byte delivered; and once the dialed end is closed a read does not block
C4_Fidelity ==
    \A c \in 1 .. Len(conns) :
        /\ conns[c].rcvd \o conns[c].buf = conns[c].sent
        /\ conns[c].eof => (conns[c].cclosed /\ conns[c].rcvd = conns[c].sent)
        /\ (conns[c].st = "accepted" /\ conns[c].cclosed /\ ~conns[c].sclosed
                /\ ~conns[c].eof) => ENABLED ConnRead(c)

\* a Dial(name) that follows a successful Listen(name) succeeds and its
\* connection is queued at the Listener that Listen returned
C4_Pairing ==
    (ret.op = "Listen" /\ ret.err = Nil /\ Called("Dial") /\ ret'.name = ret.name)
        => /\ ret'.err = Nil /\ ret'.lid = ret.lid
           /\ conns' = Append(conns, NewConn(ret.name, ret.lid))

\* the connection Accept returns is the oldest one dialed to that Listener
C4_Accepting ==
    (Called("Accept") /\ ret'.err = Nil)
        => \E c \in 1 .. Len(conns) :
            /\ conns[c].lid = ret'.lid /\ conns[c].st = "pending"
            /\ conns' = [conns EXCEPT ![c].st = "accepted"]

\* C4: after Listen(name) and Dial(name) succeed, Accept and Dial return the two
\* ends of one stream: the bytes read on the accepted end are exactly the bytes
\* written on the dialed end (an empty payload included), and after the dialed
\* end is closed the accepted end observes end-of-stream.
C4_OneStream == []C4_Fidelity /\ [][C4_Pairing /\ C4_Accepting]_vars

\* two bytes were written, read in order and followed by end-of-stream on a
\* connection accepted by the Listener of the dialed name
C4_Witness ==
    \E c \in 1 .. Len(conns) :
        /\ conns[c].st = "accepted" /\ conns[c].name = listeners[conns[c].lid].name
        /\ conns[c].sent = <<0, 1>> /\ conns[c].rcvd = <<0, 1>> /\ conns[c].eof

-----------------------------------------------------------------------------
(* C5 *)

\* the artifact path Dial(name) resolves in the current environment
DialPath(name) == socketPath(platform, env, name)

-----------------------------------------------------------------------------
(* C6 *)

\* C6: when Listen(name) has returned a Listener, the artifact of name exists at
\* the path the name resolves to and designates that Listener's endpoint, and a
\* Dial(name) started then connects to that Listener.
C6_PublishedBeforeReturn ==
    (ret.op = "Listen" /\ ret.err = Nil)
        => /\ listeners[ret.lid].path = DialPath(ret.name)
           /\ Publishes(fs, listeners, ret.lid)
           /\ Dial(platform, env, fs, listeners, ret.name).err = Nil
           /\ Dial(platform, env, fs, listeners, ret.name).lid = ret.lid

\* Listen returned a second Listener, whose artifact is published
C6_Witness ==
    /\ ret.op = "Listen" /\ ret.err = Nil /\ ret.lid = 2
    /\ Publishes(fs, listeners, ret.lid)

-----------------------------------------------------------------------------
(* C7 *)

-----------------------------------------------------------------------------
(* C8 *)

\* C8: Close closes the transport listener and then runs the cleanup closure in
\* every case (a Listener has had as many cleanups as Close calls, and when Close
\* has returned the artifact is gone exactly if the cleanup reported success),
\* and returns the transport-close error if there is one, otherwise the cleanup
\* error, otherwise nil.
C8_CloseRunsBothSteps ==
    /\ \A lid \in Lids : listeners[lid].cleanups = listeners[lid].closes
    /\ ret.op = "Close"
        => /\ listeners[ret.lid].state = "closed"
           /\ (ret.cerr = Nil) <=> (fs[listeners[ret.lid].path] = NoFile)
           /\ ret.err = (IF ret.terr # Nil THEN ret.terr ELSE ret.cerr)

\* Close returned the transport-close error although the cleanup, which ran,
\* failed too
C8_Witness ==
    /\ ret.op = "Close" /\ ret.terr # Nil /\ ret.cerr # Nil /\ ret.err = ret.terr
    /\ listeners[ret.lid].cleanups = 2

-----------------------------------------------------------------------------
(* C9 *)

\* C9: Cleanup(name) for a non-empty name without artifact returns success and
\* changes nothing; a Cleanup(name) that follows a successful Cleanup(name)
\* returns success too; and after a successful Cleanup no artifact of name exists.
C9_CleanupIdempotent ==
    [][(Called("Cleanup") /\ ret'.name # "")
        => /\ fs[DialPath(ret'.name)] = NoFile
                => (ret'.err = Nil /\ UNCHANGED <<fs, dirs, listeners, conns>>)
           /\ (ret.op = "Cleanup" /\ ret.name = ret'.name /\ ret.err = Nil)
                => ret'.err = Nil
           /\ ret'.err = Nil => fs'[DialPath(ret'.name)] = NoFile]_vars

\* Cleanup(name) succeeded on a name without artifact, right after a Listener of
\* that name was closed
C9_Witness ==
    /\ ret.op = "Cleanup" /\ ret.name # "" /\ ret.err = Nil
    /\ fs[DialPath(ret.name)] = NoFile
    /\ \E lid \in Lids : listeners[lid].path = DialPath(ret.name)
                         /\ listeners[lid].state = "closed"

-----------------------------------------------------------------------------
(* C10 *)

\* C10: when the removal in Cleanup(name) fails for another reason than "does not
\* exist", Cleanup returns that removal error, unwrapped, and the artifact stays
\* in place; Cleanup reports an error in no other case.
C10_CleanupReportsRemovalError ==
    [][(Called("Cleanup") /\ ret'.name # "")
        => /\ (fs[DialPath(ret'.name)] # NoFile /\ fs'[DialPath(ret'.name)] # NoFile)
                => ret'.err = EACCES
           /\ ret'.err # Nil
                => (ret'.err = EACCES /\ fs[DialPath(ret'.name)] # NoFile /\ fs' = fs)]_vars

\* Cleanup(name) returned the permission error and the published artifact is
\* still there
C10_Witness ==
    /\ ret.op = "Cleanup" /\ ret.err = EACCES
    /\ \E lid \in Lids : /\ listeners[lid].path = DialPath(ret.name)
                         /\ Publishes(fs, listeners, lid)

-----------------------------------------------------------------------------
(* C11, under SpecNames *)

\* the store f with every entry but the one at path p emptied
OnlyAt(f, p) == [q \in Paths |-> IF q = p THEN f[q] ELSE NoFile]

\* p is the path Listen(name) publishes in the current state: a successful Listen
\* records p in the Listener, leaves an artifact at p and touches no other path
ListenPublishesAt(name, p) ==
    \A ro \in BOOLEAN, stepOk \in BOOLEAN, port \in Ports :
        LET r == Listen(platform, env, fs, ro, dirs, listeners, name, stepOk, port)
        IN  /\ \A q \in Paths \ {p} : r.f[q] = fs[q]
            /\ r.err = Nil => (r.ls[Len(r.ls)].path = p /\ r.f[p] # NoFile)

\* p is the path Dial(name) reads: its result depends on no other entry, and
\* it fails when there is nothing at p
DialReadsAt(name, p) ==
    /\ Dial(platform, env, OnlyAt(fs, p), listeners, name)
            = Dial(platform, env, fs, listeners, name)
    /\ Dial(platform, env, [fs EXCEPT ![p] = NoFile], listeners, name).err # Nil

\* p is the path Cleanup(name) removes: it touches no other entry, and what is
\* at p is gone when it succeeds
CleanupRemovesAt(name, p) ==
    \A ro \in BOOLEAN :
        LET r == Cleanup(platform, env, fs, ro, name)
        IN  /\ \A q \in Paths \ {p} : r.f[q] = fs[q]
            /\ r.err = Nil => r.f[p] = NoFile

-----------------------------------------------------------------------------
(* C12, under SpecNames *)

\* the directory convention: the runtime directory when one is set and the shared
\* temporary directory otherwise; the application-local data directory
ConventionDir ==
    IF platform = "unix"
    THEN (IF env # "" THEN <<env>> ELSE <<"tmp">>)
    ELSE (IF env # "" THEN <<env>> ELSE <<"home", "AppData", "Local">>)
            \o <<"oscompat", "localnet">>

-----------------------------------------------------------------------------
(* C13, under SpecPortFile *)

\* text is a decimal number: digits only, at least one, no leading zero
IsDecimal(text) ==
    /\ text # <<>>
    /\ \A i \in 1 .. Len(text) : text[i] \in {"0", "1", "2", "3", "4", "5", "6", "7", "8", "9"}
    /\ Len(text) > 1 => text[1] # "0"

\* text without the white space at its two ends
Stripped(text) ==
    LET inner == {i \in 1 .. Len(text) : text[i] \notin {" ", "\t", "\n", "\r"}}
    IN  IF inner = {} THEN <<>>
        ELSE SubSeq(text, CHOOSE i \in inner : \A j \in inner : i <= j,
                          CHOOSE i \in inner : \A j \in inner : i >= j)

\* C13: the port file that Listen(name) has written holds exactly the decimal
\* text of the port p the OS gave the Listener, and a Dial(name) that finds the
\* decimal text of a port p in the file, with or without white space around it,
\* connects to the listener on loopback port p when there is one and fails
\* otherwise: it connects to no other port.
C13_PortRoundTrip ==
    platform = "windows"
        => /\ (ret.op = "Listen" /\ ret.err = Nil)
                => LET l == listeners[ret.lid]
                   IN  /\ IsDecimal(fs[l.path].data)
                       /\ DecimalValue(fs[l.path].data) = l.port
                       /\ Dial(platform, env, fs, listeners, ret.name).lid = ret.lid
           /\ (ret.op = "Dial" /\ ret.name # "" /\ fs[DialPath(ret.name)] # NoFile
                    /\ IsDecimal(Stripped(fs[DialPath(ret.name)].data)))
                => LET p == DecimalValue(Stripped(fs[DialPath(ret.name)].data))
                   IN  IF \E lid \in Lids : IsOpen(listeners, lid) /\ listeners[lid].port = p
                       THEN ret.err = Nil /\ IsOpen(listeners, ret.lid)
                                /\ listeners[ret.lid].port = p
                       ELSE ret.err # Nil /\ ret.lid = 0

\* Dial connected to the listener on port 10 through a port file that holds
\* "10" followed by a line end, while another listener is open on port 9
C13_Witness ==
    /\ ret.op = "Dial" /\ ret.err = Nil /\ listeners[ret.lid].port = 10
    /\ fs[DialPath(ret.name)].data = <<"1", "0", "\r", "\n">>
    /\ \E lid \in Lids : IsOpen(listeners, lid) /\ listeners[lid].port = 9

-----------------------------------------------------------------------------
(* C14, under SpecPortFile *)

\* text is what a decimal integer parse accepts: digits behind an optional sign
IsInteger(text) ==
    LET body == IF text # <<>> /\ Head(text) \in {"+", "-"} THEN Tail(text) ELSE text
    IN  /\ body # <<>>
        /\ \A i \in 1 .. Len(body) :
              body[i] \in {"0", "1", "2", "3", "4", "5", "6", "7", "8", "9"}

\* C14: on the TCP transport a Dial(name) whose port file holds something else
\* than a decimal integer returns an error raised before any connection is
\* attempted: it neither connects nor reports a refused connection.
C14_MalformedPortRejected ==
    (ret.op = "Dial" /\ platform = "windows" /\ ret.name # ""
        /\ fs[DialPath(ret.name)] # NoFile
        /\ ~IsInteger(Stripped(fs[DialPath(ret.name)].data)))
        => /\ ret.err # Nil /\ ret.lid = 0
           /\ ret.err # Wrap("failed to connect", ECONNREFUSED)

-----------------------------------------------------------------------------
(* C15 *)

\* how often the call op occurs in the calls io
Count(io, op) == Cardinality({i \in 1 .. Len(io) : io[i] = op})

\* the artifact at path p designates no listener that is open
NothingListensAt(p) ==
    IF platform = "unix"
    THEN ~(fs[p].kind = "sock" /\ IsOpen(listeners, fs[p].lid))
    ELSE \A lid \in Lids :
            ~(IsOpen(listeners, lid) /\ listeners[lid].port = ResolvePort(TrimSpace(fs[p].data)))

\* C15: Dial(name) reads the artifact at most once and tries to connect at most
\* once; when the artifact is missing or nothing listens behind it (a stale
\* socket or port file included) it returns an error and no connection; and it
\* creates, modifies and removes no artifact, whatever it returns.
C15_DialSingleAttempt ==
    [][Called("Dial")
        => LET r == Dial(platform, env, fs, listeners, ret'.name)
           IN  /\ ret'.err = r.err /\ ret'.lid = r.lid
               /\ Count(r.io, "os.ReadFile") <= 1 /\ Count(r.io, "net.Dial") <= 1
               /\ Len(r.io) <= 2
               /\ (ret'.name # "" /\ (fs[DialPath(ret'.name)] = NoFile
                                        \/ NothingListensAt(DialPath(ret'.name))))
                    => (ret'.err # Nil /\ ret'.lid = 0)
               /\ UNCHANGED <<fs, dirs, listeners>>]_vars

\* Dial(name) failed on a stale artifact, one whose Listener went away without
\* removing it, and the artifact is still there
C15_Witness ==
    /\ ret.op = "Dial" /\ ret.name # "" /\ ret.err # Nil
    /\ fs[DialPath(ret.name)] # NoFile
    /\ \E lid \in Lids : /\ listeners[lid].state = "dead"
                         /\ listeners[lid].path = DialPath(ret.name)

-----------------------------------------------------------------------------
(* C16 *)

\* the error err is the failure e of the step that the message step names
Reports(err, step, e) == err = Wrap(step, e)

\* the messages Listen wraps the failures of its later steps in
LaterSteps ==
    {"failed to listen", "failed to set socket permissions", "failed to write port file"}

\* a failed removal of the artifact already at the path is what Listen returns
ListenReportsRemoval(name) ==
    \A ro \in BOOLEAN, stepOk \in BOOLEAN, port \in Ports :
        LET r == Listen(platform, env, fs, ro, dirs, listeners, name, stepOk, port)
            rerr == RemoveErr(fs, ro, DialPath(name))
        IN  (rerr # Nil /\ ~IsNotExist(rerr))
                => (r.err # Nil /\ r.err[1] \notin LaterSteps /\ Reports(r.err, r.err[1], rerr))

\* a failed removal is what Cleanup returns
CleanupReportsRemoval(name) ==
    \A ro \in BOOLEAN :
        LET rerr == RemoveErr(fs, ro, DialPath(name))
        IN  (rerr # Nil /\ ~IsNotExist(rerr))
                => Cleanup(platform, env, fs, ro, name).err = rerr

\* Close returns the failure of closing the transport and the failure of
\* removing the artifact, whichever happened
CloseReportsBoth(lid) ==
    \A ro \in BOOLEAN :
        LET r == Close(platform, fs, ro, listeners[lid])
        IN  /\ r.terr # Nil => r.err = r.terr
            /\ r.cerr # Nil => r.err = r.cerr

\* C16: in every state, whatever call comes next, the failure of a step inside
\* Listen, Cleanup or Listener.Close is what the call returns to its caller.
C16_NoFailureSwallowed ==
    /\ \A name \in Names \ {""} : ListenReportsRemoval(name) /\ CleanupReportsRemoval(name)
    /\ \A lid \in Lids : listeners[lid].state # "dead" => CloseReportsBoth(lid)

-----------------------------------------------------------------------------
(* C17, under SpecListener *)

\* C17: the name a Listener holds is the name passed to the Listen call that
\* created it and never changes afterwards; Name() returns that name in every
\* state of the Listener, before and after Accept and Close; and a Name() call
\* changes no state.
C17_NameIsListenName ==
    [][/\ (Called("Listen") /\ ret'.err = Nil)
            => (ret'.lid = Len(listeners) + 1 /\ listeners'[ret'.lid].name = ret'.name)
       /\ \A lid \in Lids : listeners'[lid].name = listeners[lid].name
       /\ Called("Name")
            => /\ ret'.name = listeners[ret'.lid].name
               /\ UNCHANGED <<platform, env, dirs, fs, listeners, conns>>]_vars

\* Name() returned "b" for the second Listener, created by Listen("b") after a
\* Listen("a"), once it had accepted a connection and was closed
C17_Witness ==
    /\ ret.op = "Name" /\ ret.lid = 2 /\ ret.name = "b"
    /\ listeners[1].name = "a" /\ listeners[2].state = "closed"
    /\ \E c \in 1 .. Len(conns) : conns[c].lid = 2 /\ conns[c].st = "accepted"

-----------------------------------------------------------------------------
(* C18, under SpecTsync *)

\* the absolute difference of two instants, as a number
AbsDiff(t1, t2) == IF t1 >= t2 THEN t1 - t2 ELSE t2 - t1

\* C18: EqualWithTolerance(t1, t2, tolerance) returns true exactly when the
\* absolute difference of t1 and t2 is at most tolerance, also when the
\* difference is out of the range of a Duration, and in either argument order.
C18_EqualIffWithinTolerance ==
    ret.op = "EqualWithTolerance"
        => /\ ret.out = (AbsDiff(ret.t1, ret.t2) <= ret.tolerance)
           /\ ret.out = EqualWithTolerance(ret.t2, ret.t1, ret.tolerance)

-----------------------------------------------------------------------------
(* C19, under SpecTsync *)

\* C19: for a tolerance >= 0, CompareWithTolerance returns -1 exactly when
\* BeforeWithTolerance is true, +1 exactly when AfterWithTolerance is true and 0
\* exactly when EqualWithTolerance is true, and exactly one of the three holds.
C19_CompareAgreesWithPredicates ==
    (ret.op = "CompareWithTolerance" /\ ret.tolerance >= 0)
        => LET before == BeforeWithTolerance(ret.t1, ret.t2, ret.tolerance)
               after == AfterWithTolerance(ret.t1, ret.t2, ret.tolerance)
               equal == EqualWithTolerance(ret.t1, ret.t2, ret.tolerance)
           IN  /\ (ret.out = -1) <=> before
               /\ (ret.out = 1) <=> after
               /\ (ret.out = 0) <=> equal
               /\ Cardinality({p \in {"before", "after", "equal"} :
                        \/ p = "before" /\ before
                        \/ p = "after" /\ after
                        \/ p = "equal" /\ equal}) = 1

-----------------------------------------------------------------------------
(* C20, under SpecFs *)

RECURSIVE Segments(_)
\* the segments of p between its separators, forward slashes and backslashes
Segments(p) ==
    IF \A i \in 1 .. Len(p) : ~IsSlash(p[i]) THEN <<p>>
    ELSE LET k == CHOOSE i \in 1 .. Len(p) : IsSlash(p[i]) /\ \A j \in 1 .. i - 1 : ~IsSlash(p[j])
         IN  <<SubSeq(p, 1, k - 1)>> \o Segments(SubSeq(p, k + 1, Len(p)))

RECURSIVE Depth(_, _)
\* how deep below its root the first n segments of segs lead: a name goes one
\* level down, ".." one level up
Depth(segs, n) ==
    IF n = 0 THEN 0
    ELSE Depth(segs, n - 1)
            + (IF segs[n] = <<".", ".">> THEN -1
               ELSE IF segs[n] = <<>> \/ segs[n] = <<".">> THEN 0
               ELSE 1)

\* the '..' segments of the relative path p lead above its root
Escapes(p) == \E n \in 1 .. Len(Segments(p)) : Depth(Segments(p), n) < 0

\* p starts with a separator or with a drive letter
LooksAbsolute(p) ==
    \/ IsSlash(p[1])
    \/ Len(p) >= 2 /\ p[1] = "a" /\ p[2] = ":"

\* C20: ValidatePath returns ErrEmptyPath for the empty path, ErrAbsolutePath
\* for a path with a leading separator or a drive letter, ErrPathTraversal for
\* every other path whose '..' segments escape its root, with forward slashes or
\* backslashes, and nil for every other path.
C20_ValidatePathClassifies ==
    ret.op = "ValidatePath"
        => ret.err = (IF ret.p = <<>> THEN ErrEmptyPath
                      ELSE IF LooksAbsolute(ret.p) THEN ErrAbsolutePath
                      ELSE IF Escapes(ret.p) THEN ErrPathTraversal
                      ELSE Nil)

-----------------------------------------------------------------------------
(* C21, under SpecFs *)

\* the cleaned absolute path p is the directory base or lies below it
Inside(pf, base, p) ==
    \/ p = base
    \/ HasPrefix(p, base \o <<Separator(pf)>>)

\* C21: SafeJoin(base, rel) returns an error, or a joined path that is base
\* itself or a descendant of base.
C21_SafeJoinStaysInside ==
    ret.op = "SafeJoin" => (ret.err # Nil \/ Inside(platform, ret.base, ret.out))

-----------------------------------------------------------------------------
(* C22, under Spec *)

\* the artifact at path p is left over: it is there, a Listener created at p
\* went away without Close or Cleanup, and nothing listens behind the artifact
Stale(p) ==
    /\ fs[p] # NoFile
    /\ NothingListensAt(p)
    /\ \E lid \in Lids : listeners[lid].state = "dead" /\ listeners[lid].path = p

\* the error comes from a store that denies or fails a step of the call, not
\* from the artifact
Denied(err) ==
    \E step \in {"failed to remove existing socket", "failed to listen",
                  "failed to set socket permissions", "failed to write port file",
                  "failed to create port file directory"} :
        err \in {Wrap(step, EACCES), Wrap(step, EPERM), Wrap(step, ENOSPC)}

\* C22: with a left-over artifact at the path of name, Listen(name) succeeds
\* whenever the store permits its steps (it fails only on a denied step, never
\* on the artifact being there); the Listener it returns is a new one, the
\* artifact at the path is the one of that Listener, and a Dial(name) that
\* follows connects to it.
C22_StaleTakeover ==
    [][\A name \in Names \ {""} :
        Stale(DialPath(name)) =>
            /\ \A port \in FreePorts :
                    Listen(platform, env, fs, FALSE, dirs, listeners, name, TRUE, port).err = Nil
            /\ (Called("Listen") /\ ret'.name = name) =>
                    IF ret'.err = Nil
                    THEN /\ ret'.lid = Len(listeners) + 1
                         /\ Publishes(fs', listeners', ret'.lid)
                         /\ Dial(platform, env, fs', listeners', name).err = Nil
                         /\ Dial(platform, env, fs', listeners', name).lid = ret'.lid
                    ELSE Denied(ret'.err)]_vars

\* Listen took over the path of a Listener whose process had exited, and the
\* Dial after it connected to the new Listener
C22_Witness ==
    /\ ret.op = "Dial" /\ ret.err = Nil /\ ret.name # ""
    /\ IsOpen(listeners, ret.lid) /\ listeners[ret.lid].path = DialPath(ret.name)
    /\ \E lid \in Lids : /\ lid < ret.lid
                         /\ listeners[lid].state = "dead"
                         /\ listeners[lid].path = DialPath(ret.name)

-----------------------------------------------------------------------------
(* C23, under Spec *)

\* C23 as stated: Listen(name) succeeds while a Listener of name is open, it
\* leaves that Listener open, and no Dial(name) after it is connected to a
\* Listener of name that is older than another Listener of name.
C23_LastWriterWins ==
    [][/\ \A name \in Names \ {""} :
            (\E lid \in Lids : IsOpen(listeners, lid) /\ listeners[lid].name = name)
                => \A port \in FreePorts :
                     Listen(platform, env, fs, FALSE, dirs, listeners, name, TRUE, port).err = Nil
       /\ Called("Listen") => \A lid \in Lids : listeners'[lid] = listeners[lid]
       /\ (Called("Dial") /\ ret'.err = Nil)
            => \A lid \in Lids : listeners[lid].name = ret'.name => lid <= ret'.lid]_vars

\* C23 as amended: Listen(name) succeeds while a Listener of name is open, it
\* leaves that Listener open, and no Dial(name) after it is connected to a
\* Listener that is older than another Listener of name created at the path
\* this Dial resolves.  A Dial(name) that resolves another path, after a change
\* of the environment, may be connected to the older Listener.
C23_LastWriterWinsAtPath ==
    [][/\ \A name \in Names \ {""} :
            (\E lid \in Lids : IsOpen(listeners, lid) /\ listeners[lid].name = name)
                => \A port \in FreePorts :
                     Listen(platform, env, fs, FALSE, dirs, listeners, name, TRUE, port).err = Nil
       /\ Called("Listen") => \A lid \in Lids : listeners'[lid] = listeners[lid]
       /\ (Called("Dial") /\ ret'.err = Nil)
            => \A lid \in Lids :
                 (listeners[lid].name = ret'.name /\ listeners[lid].path = DialPath(ret'.name))
                    => lid <= ret'.lid]_vars

\* Dial(name) is connected to the second of two open Listeners of name at the
\* path it resolves
C23_Witness ==
    /\ ret.op = "Dial" /\ ret.err = Nil /\ ret.lid = 2
    /\ IsOpen(listeners, 1) /\ IsOpen(listeners, 2)
    /\ listeners[1].name = ret.name /\ listeners[2].name = ret.name
    /\ listeners[1].path = DialPath(ret.name) /\ listeners[2].path = DialPath(ret.name)

-----------------------------------------------------------------------------
(* C24, under SpecPeers *)

Cids == 1 .. Len(conns)

\* an end of connection c is closed in this step
ClosesEnd(c) ==
    \/ conns'[c].cclosed /\ ~conns[c].cclosed
    \/ conns'[c].sclosed /\ ~conns[c].sclosed

\* closing an end of one connection leaves every other connection, the
\* Listeners and the artifacts as they are
ClosingIsLocal ==
    \A c \in Cids :
        ClosesEnd(c) => /\ \A d \in Cids \ {c} : conns'[d] = conns[d]
                        /\ UNCHANGED <<fs, listeners>>

\* a connection with both ends open carries bytes, whatever became of its
\* Listener and of the artifact
Carries ==
    \A c \in Cids :
        (conns[c].st = "accepted" /\ ~conns[c].cclosed /\ ~conns[c].sclosed)
            => /\ Len(conns[c].sent) < MaxPayload => ENABLED ConnWrite(c, 0)
               /\ conns[c].buf # <<>> => ENABLED ConnRead(c)

\* C24 as stated: Close and Cleanup leave every connection that Accept or Dial
\* returned as it is, such a connection still carries bytes, and closing one
\* connection has no effect on another.
C24_ConnectionsIndependent ==
    /\ []Carries
    /\ [][/\ (Called("Close") \/ Called("Cleanup")) => conns' = conns
          /\ ClosingIsLocal]_vars

\* C24 as amended: Cleanup leaves every connection as it is; Close leaves every
\* accepted connection as it is and resets the connections that Dial returned
\* and that wait in the backlog of the closed Listener, and no other; an
\* accepted connection still carries bytes; and closing one connection has no
\* effect on another.
C24_AcceptedConnectionsIndependent ==
    /\ []Carries
    /\ [][/\ Called("Cleanup") => conns' = conns
          /\ Called("Close") =>
                /\ Len(conns') = Len(conns)
                /\ \A c \in Cids :
                     conns'[c] = IF conns[c].st = "pending" /\ conns[c].lid = ret'.lid
                                 THEN [conns[c] EXCEPT !.st = "reset"]
                                 ELSE conns[c]
          /\ ClosingIsLocal]_vars

\* the Listener is closed and its artifact gone; the first connection is open
\* at both ends and has delivered a byte, the second is closed at both ends
C24_Witness ==
    /\ Len(conns) = 2 /\ Len(listeners) >= 1
    /\ listeners[1].state = "closed" /\ fs[listeners[1].path] = NoFile
    /\ conns[1].lid = 1 /\ conns[2].lid = 1
    /\ conns[1].st = "accepted" /\ ~conns[1].cclosed /\ ~conns[1].sclosed
    /\ conns[1].rcvd = <<0>>
    /\ conns[2].st = "accepted" /\ conns[2].cclosed /\ conns[2].sclosed

-----------------------------------------------------------------------------
(* C25, under SpecNames *)

\* the artifact path of name by the convention, under the environment as it is
ConventionPath(name) ==
    Join(ConventionDir, <<name, IF platform = "unix" THEN ".sock" ELSE ".port">>)

\* in the state as it is, the calls for name act on the path the convention
\* gives under the environment as it is, which is not the path under another
ActsOnConventionPath(name) ==
    /\ SocketPath(platform, env, name) = ConventionPath(name)
    /\ \A v \in EnvVals \ {env} :
            SocketPath(platform, v, name) # SocketPath(platform, env, name)
    /\ ListenPublishesAt(name, ConventionPath(name))
    /\ DialReadsAt(name, ConventionPath(name))
    /\ CleanupRemovesAt(name, ConventionPath(name))

\* C25: whatever calls were made before, a call for name acts on the path that
\* the convention gives for name under the environment of that call: SocketPath
\* returns it, Listen publishes there and records it in the Listener, Dial
\* reads there and Cleanup removes there; and a change of the environment
\* changes the path the next call resolves.
C25_StatelessResolution ==
    /\ [](\A name \in Names \ {""} : ActsOnConventionPath(name))
    /\ [][\A name \in Names \ {""} :
            /\ (Called("SocketPath") /\ ret'.name = name)
                    => ret'.path = ConventionPath(name)
            /\ (Called("Listen") /\ ret'.name = name /\ ret'.err = Nil)
                    => listeners'[ret'.lid].path = ConventionPath(name)]_vars

\* SocketPath(name) returned another path than the one recorded in a Listener
\* of the same name, created before the environment was changed
C25_Witness ==
    /\ ret.op = "SocketPath" /\ ret.name # "" /\ ret.path = ConventionPath(ret.name)
    /\ \E lid \in Lids : listeners[lid].name = ret.name /\ listeners[lid].path # ret.path

-----------------------------------------------------------------------------
(* C26, under SpecListener *)

\* C26: when Dial(name) has returned a connection, the Listener at the other
\* end was created by Listen(name), for that same name.
C26_DialPeerHasTheName ==
    (ret.op = "Dial" /\ ret.err = Nil) => listeners[ret.lid].name = ret.name

-----------------------------------------------------------------------------
(* C27, under Spec *)

\* C27: when Listen(name) returns an error, no Listener was added and none of
\* the Listeners there were is changed, and no artifact was created: every path
\* holds what it held before the call, or nothing.
C27_FailedListenLeaksNothing ==
    [][(Called("Listen") /\ ret'.err # Nil)
        => /\ listeners' = listeners
           /\ \A p \in Paths : fs'[p] \in {fs[p], NoFile}]_vars

-----------------------------------------------------------------------------
(* C28, under Spec *)

\* C28: Close touches no path but the one recorded in its Listener when Listen
\* resolved it, and what is at that path is gone when the cleanup step reports
\* nil, whatever the environment is by then; Cleanup(name) touches no path but
\* the one name resolves to when Cleanup is called, so after a change of the
\* environment it leaves the artifact of the Listener as it is.
C28_ClosureBoundToListenPath ==
    [][/\ Called("Close")
            => /\ \A p \in Paths \ {listeners[ret'.lid].path} : fs'[p] = fs[p]
               /\ ret'.cerr = Nil => fs'[listeners[ret'.lid].path] = NoFile
       /\ (Called("Cleanup") /\ ret'.name # "")
            => /\ \A p \in Paths \ {DialPath(ret'.name)} : fs'[p] = fs[p]
               /\ ret'.err = Nil => fs'[DialPath(ret'.name)] = NoFile]_vars

\* after a change of the environment Cleanup(name) returned nil, and the
\* artifact of an open Listener of name, at the path of the environment before,
\* is still the one that Listener published
C28_Witness ==
    /\ ret.op = "Cleanup" /\ ret.name # "" /\ ret.err = Nil
    /\ \E lid \in Lids : /\ IsOpen(listeners, lid)
                         /\ listeners[lid].name = ret.name
                         /\ listeners[lid].path # DialPath(ret.name)
                         /\ Publishes(fs, listeners, lid)

-----------------------------------------------------------------------------
(* C29, under SpecArtifacts *)

\* the paths name resolves to, under any environment
PathsOf(name) == {socketPath(platform, e, name) : e \in EnvVals}

\* C29: two different non-empty names resolve to different paths; and a Listen,
\* Dial or Cleanup for one of them, or the Close of a Listener of one of them,
\* changes no artifact of the other, changes no Listener of the other, and
\* leaves a Dial of the other connected to the Listener it was connected to.
C29_NamesIndependent ==
    [][\A n \in MoreNames \ {""}, m \in MoreNames \ {""} :
        n # m =>
            /\ PathsOf(n) \cap PathsOf(m) = {}
            /\ (ret'.op \in {"Listen", "Dial", "Cleanup", "Close"} /\ ret'.name = n)
                => /\ \A p \in PathsOf(m) : fs'[p] = fs[p]
                   /\ \A lid \in Lids :
                        listeners[lid].name = m => listeners'[lid] = listeners[lid]
                   /\ LET d == Dial(platform, env, fs, listeners, m)
                      IN  (d.err = Nil /\ listeners[d.lid].name = m)
                            => Dial(platform, env, fs', listeners', m) = d]_vars

\* the Listener of one name was closed and its artifact removed while a
\* Listener of another name stays open, published and reachable by its name
C29_Witness ==
    /\ ret.op = "Close" /\ ret.err = Nil /\ ret.name # ""
    /\ fs[listeners[ret.lid].path] = NoFile
    /\ \E lid \in Lids : /\ IsOpen(listeners, lid)
                         /\ listeners[lid].name \notin {"", ret.name}
                         /\ Publishes(fs, listeners, lid)
                         /\ Dial(platform, env, fs, listeners, listeners[lid].name).lid = lid

-----------------------------------------------------------------------------
(* C30, under Spec *)

\* C30: on the socket transport, when Listen(name) has returned a Listener the
\* socket at its path is the one it bound and has mode 0700; and a Listen
\* that reports that the permissions could not be set has returned no Listener
\* and left no socket at the path.
C30_SocketOwnerOnly ==
    platform = "unix" =>
        /\ (ret.op = "Listen" /\ ret.err = Nil)
                => /\ fs[listeners[ret.lid].path].kind = "sock"
                   /\ fs[listeners[ret.lid].path].lid = ret.lid
                   /\ fs[listeners[ret.lid].path].mode = ModeSocket
        /\ (ret.op = "Listen" /\ ret.err = Wrap("failed to set socket permissions", EPERM))
                => /\ ret.lid = 0
                   /\ fs[DialPath(ret.name)] = NoFile
        /\ \A p \in Paths : fs[p].kind = "sock" => fs[p].mode = ModeSocket

\* a Listen failed on the permissions of its socket and left nothing at its
\* path, while the socket of a Listener that an earlier Listen returned is
\* there with mode 0700
C30_Witness ==
    /\ platform = "unix" /\ ret.op = "Listen"
    /\ ret.err = Wrap("failed to set socket permissions", EPERM)
    /\ fs[DialPath(ret.name)] = NoFile
    /\ \E lid \in Lids : /\ IsOpen(listeners, lid)
                         /\ fs[listeners[lid].path] = SocketFile(lid, ModeSocket)

====
